---- MODULE Spec2Model ----
(***************************************************************************)
(* OpenNero logging facility (source/core/Log.cpp): a process-wide vector  *)
(* of log connections, a filter list of message types, and the log calls   *)
(* that fan a message out to the connections.                              *)
(* SceneObject (source/render/SceneObject.h): the scene-graph nodes a      *)
(* scene object holds and its hasMesh() query.                             *)
(***************************************************************************)
EXTENDS Integers, Sequences, FiniteSets, TLC

\* ---------------------------------------------------------------- bounds
\* Longest connection vector the model lets AddLogConnection build.
MaxConns == 3
\* Longest filter list handed to LogSystemSpecifyFilters.
MaxFilters == 1
\* Number of scene-graph nodes a SceneObject's pointers can refer to.
MaxNodes == 4

\* ---------------------------------------------------------------- values
\* A null `const char*` argument (msgType / connectionName).
NULL == "NULL"

\* An ILogConnectionPtr is the object it points to: the object's name and
\* its identity.  The empty pointer ILogConnectionPtr() is NullConn.
NullConn == [name |-> "", id |-> 0]

\* Connections the caller creates itself and hands to AddLogConnection /
\* RemoveLogConnection.  The second one carries the same name as the
\* console connection LogSystemInit creates.
UserConns == { [name |-> "test", id |-> 1], [name |-> "console_log", id |-> 2] }

\* The k-th pair of objects LogSystemInit can allocate (k = 0, 1, ...): a
\* FileStreamConnection and a StreamLogConnection over std::cout.
fileLog(k)  == [name |-> "nero_file_log", id |-> Cardinality(UserConns) + 2 * k + 1]
stdioLog(k) == [name |-> "console_log",   id |-> Cardinality(UserConns) + 2 * k + 2]

\* Message types and connection names the log calls are tried with.
MsgTypes  == {"python", "generic"}
ConnNames == {"nero_file_log", "console_log", "test"}
Msgs      == {"Hello"}

\* The four ILogConnection member functions a log call can select.
MemberLogFunc == {"LogDebug", "LogMsg", "LogWarning", "LogError"}

\* ILogConnection::getConnectionName
getConnectionName(c) == c.name

RECURSIVE SeqsUpTo(_, _)
SeqsUpTo(S, n) ==
    IF n = 0 THEN { <<>> }
    ELSE LET shorter == SeqsUpTo(S, n - 1)
         IN  shorter \cup { Append(s, x) : s \in shorter, x \in S }

\* The filter lists LogSystemSpecifyFilters is tried with.
FilterLists == SeqsUpTo(MsgTypes, MaxFilters)

\* ---------------------------------------------------------------- state
VARIABLES
    sLogConnections,  \* static ILogConnectionVector
    sFilterList,      \* static FilterList
    moveAssign,       \* does this build's std::remove move-assign (C++11) or copy-assign (C++03)
    failed,           \* the process died on Assert(*itr) / a null dereference
    delivered,        \* the member-function calls made by the latest operation, in order
    lastOp,           \* the latest operation and its arguments
    sceneObject,      \* the node members of a SceneObject
    hasMeshReturn     \* << >> until hasMesh() is called, then << its return value >>

logVars == << sLogConnections, sFilterList, moveAssign, failed, delivered, lastOp >>
sceneVars == << sceneObject, hasMeshReturn >>
vars == << logVars, sceneVars >>

\* A null node pointer, and the scene-graph nodes a pointer can refer to.
NullNode == 0
Nodes == 1..MaxNodes

\* A SceneObject none of whose node pointers is set.
NoNodes ==
    [ mSceneNode |-> NullNode, mAniSceneNode |-> NullNode,
      mTerrSceneNode |-> NullNode, mParticleSystemNode |-> NullNode,
      mTextNode |-> NullNode ]

Op(op, conn, msgType, connectionName, msg, flist) ==
    [ op |-> op, conn |-> conn, msgType |-> msgType,
      connectionName |-> connectionName, msg |-> msg, flist |-> flist ]

Init ==
    /\ sLogConnections = << >>
    /\ sFilterList = << >>
    /\ moveAssign \in BOOLEAN
    /\ failed = FALSE
    /\ delivered = << >>
    /\ lastOp = Op("start", NullConn, NULL, NULL, "", << >>)
    /\ sceneObject = NoNodes
    /\ hasMeshReturn = << >>

\* The entries of a vector.
Range(v) == { v[i] : i \in 1..Len(v) }

\* ---------------------------------------------------------------- LogUtil
\* LogUtil::find: scan the vector front to back; dereferencing an empty
\* entry ends the process.
RECURSIVE findFrom(_, _)
findFrom(i, connectionName) ==
    IF i > Len(sLogConnections)
    THEN [ crash |-> FALSE, ptr |-> NullConn ]
    ELSE IF sLogConnections[i] = NullConn
    THEN [ crash |-> TRUE, ptr |-> NullConn ]
    ELSE IF getConnectionName(sLogConnections[i]) = connectionName
    THEN [ crash |-> FALSE, ptr |-> sLogConnections[i] ]
    ELSE findFrom(i + 1, connectionName)

find(connectionName) == findFrom(1, connectionName)

\* std::find( sFilterList.begin(), sFilterList.end(), msgType ) != sFilterList.end()
InFilterList(msgType) ==
    \E i \in 1..Len(sFilterList) : sFilterList[i] = msgType

\* Mutant of IsFiltered: the filter test is skipped.
NeverFiltered(msgType) == FALSE

\* The test at the head of OutputToLogFunc: a non-null type found in the list.
IsFiltered(msgType) == msgType # NULL /\ InFilterList(msgType)

\* The broadcast loop: entries are visited front to back; an empty entry
\* fails Assert(*itr) and nothing after it is reached.
RECURSIVE broadcastFrom(_, _, _)
broadcastFrom(i, func, msg) ==
    IF i > Len(sLogConnections)
    THEN [ crash |-> FALSE, calls |-> << >> ]
    ELSE IF sLogConnections[i] = NullConn
    THEN [ crash |-> TRUE, calls |-> << >> ]
    ELSE LET rest == broadcastFrom(i + 1, func, msg)
         IN  [ crash |-> rest.crash,
               calls |-> << [to |-> sLogConnections[i], func |-> func, msg |-> msg] >>
                           \o rest.calls ]

broadcast(func, msg) == broadcastFrom(1, func, msg)

\* The targeted branch: output to the connection LogUtil::find returns, if any.
targeted(func, connectionName, msg) ==
    LET c == find(connectionName)
    IN  [ crash |-> c.crash,
          calls |-> IF c.crash \/ c.ptr = NullConn THEN << >>
                    ELSE << [to |-> c.ptr, func |-> func, msg |-> msg] >> ]

\* LogUtil::OutputToLogFunc
OutputToLogFunc(func, msgType, connectionName, msg) ==
    LET out == IF IsFiltered(msgType) THEN [ crash |-> FALSE, calls |-> << >> ]
               ELSE IF connectionName = NULL THEN broadcast(func, msg)
               ELSE targeted(func, connectionName, msg)
    IN  /\ delivered' = out.calls
        /\ failed' = out.crash
        /\ lastOp' = Op(func, NullConn, msgType, connectionName, msg, << >>)
        /\ UNCHANGED << sLogConnections, sFilterList, moveAssign, sceneObject, hasMeshReturn >>

\* ---------------------------------------------------------------- operations
\* Mutant of pushed: the connection is inserted at the front.
pushedFront(v, conn) == IF conn # NullConn THEN << conn >> \o v ELSE v

\* The body of AddLogConnection applied to a vector v: push_back if conn is set.
pushed(v, conn) == IF conn # NullConn THEN Append(v, conn) ELSE v

\* AddLogConnection( ILogConnectionPtr conn )
AddLogConnection(conn) ==
    /\ ~failed
    /\ Len(pushed(sLogConnections, conn)) <= MaxConns
    /\ sLogConnections' = pushed(sLogConnections, conn)
    /\ delivered' = << >>
    /\ lastOp' = Op("AddLogConnection", conn, NULL, NULL, "", << >>)
    /\ UNCHANGED << sFilterList, moveAssign, failed, sceneObject, hasMeshReturn >>

\* std::find over the vector: index of the first entry equal to val, or Len + 1.
RECURSIVE stdFindFrom(_, _, _)
stdFindFrom(v, i, val) ==
    IF i > Len(v) \/ v[i] = val THEN i ELSE stdFindFrom(v, i + 1, val)

\* The compaction loop of std::remove: result is the write position, i the
\* read position.  A kept element is assigned to v[result]; a build that
\* move-assigns leaves the source entry empty, one that copy-assigns leaves
\* it as it was.
RECURSIVE stdRemoveLoop(_, _, _, _, _)
stdRemoveLoop(v, result, i, val, moves) ==
    IF i > Len(v) THEN v
    ELSE IF v[i] # val
    THEN LET assigned == [v EXCEPT ![result] = v[i]]
             source   == IF moves THEN [assigned EXCEPT ![i] = NullConn] ELSE assigned
         IN  stdRemoveLoop(source, result + 1, i + 1, val, moves)
    ELSE stdRemoveLoop(v, result, i + 1, val, moves)

\* std::remove( begin, end, val ): the vector as it is left (its size never
\* changes; the returned iterator is discarded by the caller).
stdRemove(v, val, moves) ==
    LET first == stdFindFrom(v, 1, val)
    IN  IF first > Len(v) THEN v
        ELSE stdRemoveLoop(v, first, first + 1, val, moves)

\* Connections a caller can hold a pointer to: its own, and the registered
\* ones.
Holdable == UserConns \cup Range(sLogConnections) \cup { NullConn }

\* RemoveLogConnection( ILogConnectionPtr conn )
RemoveLogConnection(conn) ==
    /\ ~failed
    /\ sLogConnections' = stdRemove(sLogConnections, conn, moveAssign)
    /\ delivered' = << >>
    /\ lastOp' = Op("RemoveLogConnection", conn, NULL, NULL, "", << >>)
    /\ UNCHANGED << sFilterList, moveAssign, failed, sceneObject, hasMeshReturn >>

LogDebug(type, connectionName, msg) ==
    ~failed /\ OutputToLogFunc("LogDebug", type, connectionName, msg)

LogMsg(type, connectionName, msg) ==
    ~failed /\ OutputToLogFunc("LogMsg", type, connectionName, msg)

LogWarning(type, connectionName, msg) ==
    ~failed /\ OutputToLogFunc("LogWarning", type, connectionName, msg)

LogError(type, connectionName, msg) ==
    ~failed /\ OutputToLogFunc("LogError", type, connectionName, msg)

\* The pair `new` hands out: objects distinct from every live connection.
\* A connection LogSystemInit created lives only as long as the vector holds
\* it, so the first pair not in the vector is a fresh one.
freshPair ==
    CHOOSE k \in 0..Len(sLogConnections) :
        /\ { fileLog(k), stdioLog(k) } \cap Range(sLogConnections) = {}
        /\ \A j \in 0..(k - 1) :
              { fileLog(j), stdioLog(j) } \cap Range(sLogConnections) # {}

\* Mutant of LogSystemInit: the console log is added before the file log.
LogSystemInitSwapped ==
    /\ ~failed
    /\ Len(sLogConnections) + 2 <= MaxConns
    /\ sLogConnections' = pushed(pushed(sLogConnections, stdioLog(freshPair)),
                                 fileLog(freshPair))
    /\ delivered' = << >>
    /\ lastOp' = Op("LogSystemInit", NullConn, NULL, NULL, "", << >>)
    /\ UNCHANGED << sFilterList, moveAssign, failed, sceneObject, hasMeshReturn >>

\* LogSystemInit(): two fresh connections, the file log then the console log.
LogSystemInit ==
    /\ ~failed
    /\ Len(sLogConnections) + 2 <= MaxConns
    /\ sLogConnections' = pushed(pushed(sLogConnections, fileLog(freshPair)),
                                 stdioLog(freshPair))
    /\ delivered' = << >>
    /\ lastOp' = Op("LogSystemInit", NullConn, NULL, NULL, "", << >>)
    /\ UNCHANGED << sFilterList, moveAssign, failed, sceneObject, hasMeshReturn >>

\* Mutant of LogSystemSpecifyFilters: the new list extends the old one.
LogSystemExtendFilters(flist) ==
    /\ ~failed
    /\ sFilterList' = sFilterList \o flist
    /\ delivered' = << >>
    /\ lastOp' = Op("LogSystemSpecifyFilters", NullConn, NULL, NULL, "", flist)
    /\ UNCHANGED << sLogConnections, moveAssign, failed, sceneObject, hasMeshReturn >>

\* LogSystemSpecifyFilters( const FilterList& flist )
LogSystemSpecifyFilters(flist) ==
    /\ ~failed
    /\ sFilterList' = flist
    /\ delivered' = << >>
    /\ lastOp' = Op("LogSystemSpecifyFilters", NullConn, NULL, NULL, "", flist)
    /\ UNCHANGED << sLogConnections, moveAssign, failed, sceneObject, hasMeshReturn >>

\* Mutant of LogSystemShutdown: only the last connection is dropped.
LogSystemShutdownPopBack ==
    /\ ~failed
    /\ sLogConnections' = IF sLogConnections = << >> THEN << >>
                          ELSE SubSeq(sLogConnections, 1, Len(sLogConnections) - 1)
    /\ delivered' = << >>
    /\ lastOp' = Op("LogSystemShutdown", NullConn, NULL, NULL, "", << >>)
    /\ UNCHANGED << sFilterList, moveAssign, failed, sceneObject, hasMeshReturn >>

\* LogSystemShutdown()
LogSystemShutdown ==
    /\ ~failed
    /\ sLogConnections' = << >>
    /\ delivered' = << >>
    /\ lastOp' = Op("LogSystemShutdown", NullConn, NULL, NULL, "", << >>)
    /\ UNCHANGED << sFilterList, moveAssign, failed, sceneObject, hasMeshReturn >>

LogArgs == (MsgTypes \cup {NULL}) \X (ConnNames \cup {NULL}) \X Msgs

Next ==
    \/ \E conn \in UserConns \cup {NullConn} : AddLogConnection(conn)
    \/ \E conn \in Holdable : RemoveLogConnection(conn)
    \/ \E a \in LogArgs : LogDebug(a[1], a[2], a[3])
    \/ \E a \in LogArgs : LogMsg(a[1], a[2], a[3])
    \/ \E a \in LogArgs : LogWarning(a[1], a[2], a[3])
    \/ \E a \in LogArgs : LogError(a[1], a[2], a[3])
    \/ LogSystemInit
    \/ \E flist \in FilterLists : LogSystemSpecifyFilters(flist)
    \/ LogSystemShutdown

Spec == Init /\ [][Next]_vars

\* ---------------------------------------------------------------- SceneObject
\* The node members of a SceneObject.  mSceneNode points to the node in
\* use; of the animated-mesh, terrain and particle-system pointers at most
\* one is used for any object; a text node is optional and is a node of
\* its own.
SceneObjects ==
    { o \in [ mSceneNode : Nodes \cup {NullNode},
              mAniSceneNode : Nodes \cup {NullNode},
              mTerrSceneNode : Nodes \cup {NullNode},
              mParticleSystemNode : Nodes \cup {NullNode},
              mTextNode : Nodes \cup {NullNode} ] :
        LET used == { o.mAniSceneNode, o.mTerrSceneNode, o.mParticleSystemNode }
                      \ {NullNode}
        IN  /\ Cardinality({ f \in {"mAniSceneNode", "mTerrSceneNode",
                                    "mParticleSystemNode"} : o[f] # NullNode }) <= 1
            /\ IF used = {} THEN o.mSceneNode = NullNode
               ELSE o.mSceneNode \in used
            /\ o.mTextNode \notin used }

\* bool hasMesh() const
hasMesh(o) == o.mTerrSceneNode # NullNode

\* A call of hasMesh() on the scene object.
CallHasMesh ==
    /\ hasMeshReturn = << >>
    /\ hasMeshReturn' = << hasMesh(sceneObject) >>
    /\ UNCHANGED << sceneObject, logVars >>

SceneInit ==
    /\ sLogConnections = << >>
    /\ sFilterList = << >>
    /\ moveAssign = FALSE
    /\ failed = FALSE
    /\ delivered = << >>
    /\ lastOp = Op("start", NullConn, NULL, NULL, "", << >>)
    /\ sceneObject \in SceneObjects
    /\ hasMeshReturn = << >>

SceneNext == CallHasMesh

SceneSpec == SceneInit /\ [][SceneNext]_vars

\* ---------------------------------------------------------------- properties
IsLogOp(o) == o.op \in MemberLogFunc

\* The connections the latest operation called into, in call order.
Targets(d) == [ i \in 1..Len(d) |-> d[i].to ]

\* Number of entries of v equal to x.
Count(v, x) == Cardinality({ i \in 1..Len(v) : v[i] = x })

\* Names carried by the entries of v.
NamesIn(v) == { getConnectionName(v[i]) : i \in 1..Len(v) }

\* Index of the first entry of v named n (0 if there is none).
FirstNamed(v, n) ==
    IF n \in NamesIn(v)
    THEN CHOOSE i \in 1..Len(v) :
            /\ getConnectionName(v[i]) = n
            /\ \A j \in 1..(i - 1) : getConnectionName(v[j]) # n
    ELSE 0

\* Every call of the latest operation used its member function and message.
CallsCarry(o, d) == \A i \in 1..Len(d) : d[i].func = o.op /\ d[i].msg = o.msg

\* C1: RemoveLogConnection(conn) of a registered conn leaves no entry equal
\* to conn, shortens the list by the number of such entries, and a broadcast
\* that follows does not reach conn.
C1_RemoveTakesConnOut ==
    [][ /\ ( /\ lastOp'.op = "RemoveLogConnection"
             /\ lastOp'.conn # NullConn
             /\ Count(sLogConnections, lastOp'.conn) > 0 )
           => /\ Count(sLogConnections', lastOp'.conn) = 0
              /\ Len(sLogConnections') =
                    Len(sLogConnections) - Count(sLogConnections, lastOp'.conn)
        /\ ( /\ lastOp.op = "RemoveLogConnection"
             /\ lastOp.conn # NullConn
             /\ IsLogOp(lastOp')
             /\ lastOp'.connectionName = NULL
             /\ lastOp'.msgType \notin Range(sFilterList) )
           => \A i \in 1..Len(delivered') : delivered'[i].to # lastOp.conn
      ]_vars

\* C2: a log call whose non-null type is in the filter list reaches no
\* connection, broadcast or targeted, whichever of the four calls it is.
C2_FilteredIsIgnored ==
    ( /\ IsLogOp(lastOp)
      /\ lastOp.msgType # NULL
      /\ lastOp.msgType \in Range(sFilterList) )
    => delivered = << >> /\ ~failed

C2_Witness ==
    /\ IsLogOp(lastOp)
    /\ lastOp.msgType # NULL
    /\ lastOp.msgType \in Range(sFilterList)
    /\ lastOp.connectionName \in NamesIn(sLogConnections)
    /\ NullConn \notin Range(sLogConnections)

\* C3: an unfiltered broadcast (connectionName NULL) calls every entry of
\* the connection list exactly once, in list order, and nothing else.
C3_BroadcastReachesAll ==
    ( /\ IsLogOp(lastOp)
      /\ lastOp.connectionName = NULL
      /\ ~(lastOp.msgType # NULL /\ lastOp.msgType \in Range(sFilterList)) )
    => /\ Targets(delivered) = sLogConnections
       /\ CallsCarry(lastOp, delivered)
       /\ ~failed

\* What a targeted call is to do on vector v for name n: one call to the
\* first entry named n, or nothing at all.
FirstNamedOnly(v, n, d, f) ==
    IF FirstNamed(v, n) = 0
    THEN d = << >> /\ ~f
    ELSE Targets(d) = << v[FirstNamed(v, n)] >> /\ ~f

\* C4: an unfiltered targeted call (connectionName non-NULL) calls the first
\* entry with that name once and no other entry; with no such entry it
\* calls nobody and changes nothing.
C4_TargetedReachesFirstNamed ==
    ( /\ IsLogOp(lastOp)
      /\ lastOp.connectionName # NULL
      /\ ~(lastOp.msgType # NULL /\ lastOp.msgType \in Range(sFilterList)) )
    => /\ FirstNamedOnly(sLogConnections, lastOp.connectionName, delivered, failed)
       /\ CallsCarry(lastOp, delivered)

\* C5: LogSystemShutdown empties the connection list and keeps the filter
\* list; while the list is empty every log call reaches nobody, and only
\* adding a connection makes it non-empty again.
C5_ShutdownClears ==
    [][ /\ lastOp'.op = "LogSystemShutdown"
           => sLogConnections' = << >> /\ sFilterList' = sFilterList
        /\ (sLogConnections = << >> /\ IsLogOp(lastOp'))
           => delivered' = << >> /\ ~failed'
        /\ (sLogConnections = << >> /\ sLogConnections' # << >>)
           => lastOp'.op \in {"AddLogConnection", "LogSystemInit"}
      ]_vars

C5_Witness ==
    /\ lastOp.op = "LogSystemShutdown"
    /\ sLogConnections = << >>
    /\ sFilterList # << >>

\* C6: LogSystemInit appends a connection named nero_file_log and then one
\* named console_log after the existing entries and keeps the filter list;
\* called on an empty list, a following unfiltered call targeted at either
\* name reaches that connection and a broadcast reaches exactly the two.
C6_InitAddsFileThenConsole ==
    [][ /\ lastOp'.op = "LogSystemInit"
           => LET n == Len(sLogConnections)
              IN  /\ Len(sLogConnections') = n + 2
                  /\ SubSeq(sLogConnections', 1, n) = sLogConnections
                  /\ getConnectionName(sLogConnections'[n + 1]) = "nero_file_log"
                  /\ getConnectionName(sLogConnections'[n + 2]) = "console_log"
                  /\ sLogConnections'[n + 1] \notin Range(sLogConnections)
                  /\ sLogConnections'[n + 2] \notin Range(sLogConnections)
                  /\ sFilterList' = sFilterList
        /\ ( /\ lastOp.op = "LogSystemInit"
             /\ Len(sLogConnections) = 2
             /\ IsLogOp(lastOp')
             /\ ~(lastOp'.msgType # NULL /\ lastOp'.msgType \in Range(sFilterList)) )
           => /\ ~failed'
              /\ lastOp'.connectionName = NULL
                    => Targets(delivered') = sLogConnections
              /\ lastOp'.connectionName = "nero_file_log"
                    => Targets(delivered') = << sLogConnections[1] >>
              /\ lastOp'.connectionName = "console_log"
                    => Targets(delivered') = << sLogConnections[2] >>
      ]_vars

C6_Witness ==
    /\ IsLogOp(lastOp)
    /\ lastOp.connectionName = "console_log"
    /\ sLogConnections = << fileLog(0), stdioLog(0) >>
    /\ Targets(delivered) = << stdioLog(0) >>

\* C7: AddLogConnection of a non-null conn makes conn the last entry, keeps
\* the earlier entries and grows the list by one, registered already or
\* not; with a null conn the list stays as it is.
C7_AddAppends ==
    [][ lastOp'.op = "AddLogConnection"
        => IF lastOp'.conn # NullConn
           THEN /\ Len(sLogConnections') = Len(sLogConnections) + 1
                /\ SubSeq(sLogConnections', 1, Len(sLogConnections)) = sLogConnections
                /\ sLogConnections'[Len(sLogConnections')] = lastOp'.conn
           ELSE sLogConnections' = sLogConnections
      ]_vars

C7_Witness ==
    /\ lastOp.op = "AddLogConnection"
    /\ lastOp.conn # NullConn
    /\ Count(sLogConnections, lastOp.conn) >= 2
    /\ sLogConnections[Len(sLogConnections)] = lastOp.conn

\* C8: no entry of the connection list is ever null, so the broadcast
\* loop's assertion never fails.
C8_EntriesNonNull ==
    /\ NullConn \notin Range(sLogConnections)
    /\ ~failed

\* C9: LogSystemSpecifyFilters(flist) replaces the filter list and leaves
\* the connection list alone; in the log call that follows exactly the types
\* of flist are suppressed, whatever the list held before.
C9_SpecifyReplaces ==
    [][ /\ lastOp'.op = "LogSystemSpecifyFilters"
           => /\ sFilterList' = lastOp'.flist
              /\ sLogConnections' = sLogConnections
        /\ ( /\ lastOp.op = "LogSystemSpecifyFilters"
             /\ IsLogOp(lastOp')
             /\ lastOp'.msgType # NULL )
           => IF lastOp'.msgType \in Range(lastOp.flist)
              THEN delivered' = << >> /\ ~failed'
              ELSE ( /\ sLogConnections # << >>
                     /\ sLogConnections[1] # NullConn
                     /\ lastOp'.connectionName
                           \in {NULL, getConnectionName(sLogConnections[1])} )
                   => /\ delivered' # << >>
                      /\ delivered'[1].to = sLogConnections[1]
      ]_vars

C9_Witness ==
    /\ IsLogOp(lastOp)
    /\ sFilterList # << >>
    /\ lastOp.msgType \in MsgTypes \ Range(sFilterList)
    /\ delivered # << >>

\* C10: a log call with a NULL type is delivered whatever the filter list
\* holds: to every entry if connectionName is NULL, else to the first entry
\* with that name.
C10_NullTypeDelivered ==
    ( IsLogOp(lastOp) /\ lastOp.msgType = NULL )
    => IF lastOp.connectionName = NULL
       THEN Targets(delivered) = sLogConnections /\ ~failed
       ELSE FirstNamedOnly(sLogConnections, lastOp.connectionName, delivered, failed)

\* C11: for a scene object that uses at most one of the animated-mesh,
\* terrain and particle-system nodes, hasMesh() returns true exactly when
\* the object is backed by a mesh node (animated mesh or terrain), false
\* when it is backed by a particle system only or by no node.
C11_HasMeshIffMeshNode ==
    hasMeshReturn # << >>
    => ( hasMeshReturn[1] <=> ( \/ sceneObject.mAniSceneNode # NullNode
                                \/ sceneObject.mTerrSceneNode # NullNode ) )

====
